---- MODULE Spec2Model ----
(***************************************************************************)
(* Model of the authenticating gateway in src/main.go: the three HTTP      *)
(* handlers (handleMain, handleCallback, handleLogout), their helpers, the *)
(* parts of net/http and path/filepath they call, and one browser that     *)
(* keeps the cookies the gateway sets.                                     *)
(*                                                                         *)
(* A string is a sequence of symbols.  A symbol is one character, or a     *)
(* literal chunk of text that no operation looks into (a host name, the    *)
(* fixed part of a URL).  A file-system path is a sequence of segments.    *)
(***************************************************************************)
EXTENDS Integers, Sequences, FiniteSets, TLC

VARIABLES conf, jar, req, resp, hist, inflight

vars == <<conf, jar, req, resp, hist, inflight>>

(* ------------------------------ bounds --------------------------------- *)

\* Largest number of directory segments before the last segment of a
\* request path.
MaxDepth == 1

\* The number of requests the server handles at the same time.
NumSlots == 2

(* --------------------------- string helpers ---------------------------- *)

RECURSIVE SplitFrom(_, _, _, _)
SplitFrom(s, sep, i, cur) ==
  IF i > Len(s) THEN <<cur>>
  ELSE IF s[i] = sep THEN <<cur>> \o SplitFrom(s, sep, i + 1, <<>>)
  ELSE SplitFrom(s, sep, i + 1, Append(cur, s[i]))

\* strings.Split(s, sep) for a one-symbol separator: Split("", sep) is [""].
Split(s, sep) == SplitFrom(s, sep, 1, <<>>)

HasPrefix(s, p) == Len(s) >= Len(p) /\ SubSeq(s, 1, Len(p)) = p

HasSuffix(s, p) == Len(s) >= Len(p) /\ SubSeq(s, Len(s) - Len(p) + 1, Len(s)) = p

TrimPrefix(s, p) == IF HasPrefix(s, p) THEN SubSeq(s, Len(p) + 1, Len(s)) ELSE s

UpperLetters ==
  <<"A","B","C","D","E","F","G","H","I","J","K","L","M",
    "N","O","P","Q","R","S","T","U","V","W","X","Y","Z">>

LowerLetters ==
  <<"a","b","c","d","e","f","g","h","i","j","k","l","m",
    "n","o","p","q","r","s","t","u","v","w","x","y","z">>

ToLowerSym(c) ==
  IF \E i \in DOMAIN UpperLetters : UpperLetters[i] = c
  THEN LowerLetters[CHOOSE i \in DOMAIN UpperLetters : UpperLetters[i] = c]
  ELSE c

ToLower(s) == [i \in 1..Len(s) |-> ToLowerSym(s[i])]

\* url.QueryEscape, symbol by symbol: unreserved characters stay, a space
\* becomes "+", every other byte becomes %XX.
QueryEscapeSym(c) ==
  CASE c = ":"  -> <<"%", "3", "A">>
    [] c = "/"  -> <<"%", "2", "F">>
    [] c = " "  -> <<"+">>
    [] c = "é"  -> <<"%", "C", "3", "%", "A", "9">>
    [] OTHER    -> <<c>>

RECURSIVE QueryEscape(_)
QueryEscape(s) ==
  IF s = <<>> THEN <<>> ELSE QueryEscapeSym(Head(s)) \o QueryEscape(Tail(s))

(* ------------------------- path/filepath ------------------------------- *)

RECURSIVE ExtFrom(_, _)
ExtFrom(p, i) ==
  IF i < 1 \/ p[i] = "/" THEN <<>>
  ELSE IF p[i] = "." THEN SubSeq(p, i, Len(p))
  ELSE ExtFrom(p, i - 1)

\* filepath.Ext: the suffix from the last dot of the last path element.
Ext(p) == ExtFrom(p, Len(p))

RECURSIVE CleanSegs(_, _)
CleanSegs(acc, rest) ==
  IF rest = <<>> THEN acc
  ELSE LET s == Head(rest) IN
       IF s = <<>> \/ s = <<".">> THEN CleanSegs(acc, Tail(rest))
       ELSE IF s = <<".", ".">>
            THEN CleanSegs(IF acc = <<>> THEN <<>> ELSE SubSeq(acc, 1, Len(acc) - 1),
                           Tail(rest))
            ELSE CleanSegs(Append(acc, s), Tail(rest))

\* filepath.Join(dir, rel) for an absolute dir: the segments of both, cleaned
\* (empty and "." segments dropped, ".." removes the segment before it and
\* is dropped at the file-system root).
Join(dir, rel) == CleanSegs(<<>>, dir \o Split(rel, "/"))

(* ------------------------- names used as data -------------------------- *)

sDot        == <<".">>
sDotDot     == <<".", ".">>
sSrv        == <<"s", "r", "v">>
sSite       == <<"s", "i", "t", "e">>
sNotes      == <<"n", "o", "t", "e", "s">>
sArticle    == <<"a", "r", "t", "i", "c", "l", "e">>
sArticlePng == sArticle \o <<".", "p", "n", "g">>
sArticleHtml == sArticle \o <<".", "h", "t", "m", "l">>
sIndexHtml  == <<"i", "n", "d", "e", "x", ".", "h", "t", "m", "l">>
sPageHTM    == <<"P", ".", "H", "T", "M">>
s404Html    == <<"4", "0", "4", ".", "h", "t", "m", "l">>
sFavicon    == <<"f", "a", "v", "i", "c", "o", "n", ".", "i", "c", "o">>

\* The last segment of a request path ("" gives "/" and "x/").
LeafNames == {<<>>, sDot, sNotes, sArticle, sArticlePng, sIndexHtml, sPageHTM}

\* The directory segments before it.
DirNames == {sNotes, sDotDot}

RECURSIVE DirSeqs(_)
DirSeqs(n) ==
  IF n = 0 THEN {<<>>}
  ELSE {Append(ss, s) : ss \in DirSeqs(n - 1), s \in DirNames}

RECURSIVE PathOf(_)
\* "/" before every segment: PathOf(<<"notes", "">>) is "/notes/".
PathOf(ss) == IF ss = <<>> THEN <<>> ELSE <<"/">> \o Head(ss) \o PathOf(Tail(ss))

\* Other spellings of a page's path: "/index.html/" and "/index.html.".
SpellingPaths == {PathOf(<<sIndexHtml, <<>>>>), PathOf(<<Append(sIndexHtml, ".")>>)}

\* The URL paths a request can carry (r.URL.Path always starts with "/").
ReqPaths ==
  UNION {{PathOf(Append(ds, leaf)) : ds \in DirSeqs(n), leaf \in LeafNames} : n \in 0..MaxDepth}
    \cup {PathOf(<<sFavicon>>)} \cup SpellingPaths

\* The files on disk: the site tree under /srv/site, and one file beside it.
Files ==
  { <<sSrv, sSite, sIndexHtml>>,
    <<sSrv, sSite, sArticlePng>>,
    <<sSrv, sSite, sPageHTM>>,
    <<sSrv, sSite, sFavicon>>,
    <<sSrv, sSite, s404Html>>,
    <<sSrv, sSite, sNotes, sIndexHtml>>,
    <<sSrv, sSite, sNotes, sArticleHtml>>,
    <<sSrv, sSite, sNotes, sArticlePng>>,
    <<sSrv, sArticlePng>> }

IsFile(p) == p \in Files

IsDir(p) == \E f \in Files : Len(f) > Len(p) /\ SubSeq(f, 1, Len(p)) = p

(* ------------------------------ config --------------------------------- *)

\* The configuration after loadConfig: QuartzDir is cleaned, an absolute path.
LoadedConfig ==
  [ ListenAddr   |-> <<":", "8080">>,
    BaseURL      |-> <<"http", ":", "/", "/", "gw">>,
    QuartzDir    |-> CleanSegs(<<>>, <<sSrv, sSite, <<>>>>),
    CasdoorAddr  |-> <<"http", ":", "/", "/", "idp">>,
    ClientID     |-> <<"cid">>,
    ClientSecret |-> <<"secret">>,
    AppName      |-> <<"app">>,
    RedirectPath |-> <<"http", ":", "/", "/", "gw", "/", "callback">> ]

(* ------------------------------ net/http ------------------------------- *)

CookieNames == {"quartz_session", "quartz_username"}

StatusFound == 302
StatusMovedPermanently == 301
StatusBadRequest == 400
StatusUnauthorized == 401
StatusNotFound == 404
StatusOK == 200

\* A response nothing was written to; cacheControl is the Cache-Control
\* header, "" while no handler has set it, and writes counts the times a
\* status line and body were written (the client gets the first only).
NoResp ==
  [ status |-> 0, sink |-> "none", location |-> <<>>, text |-> "",
    relPath |-> <<>>, opened |-> {}, sent |-> {}, listing |-> FALSE,
    cacheControl |-> "", setCookies |-> <<>>, writes |-> 0 ]

\* http.Redirect(w, r, url, code), on the response built so far.
Redirect(w, url, code) ==
  IF w.writes > 0 THEN [w EXCEPT !.writes = @ + 1]
  ELSE [w EXCEPT !.status = code, !.sink = "Redirect", !.location = url, !.writes = 1]

\* http.Error(w, text, code).
Error(w, text, code) ==
  IF w.writes > 0 THEN [w EXCEPT !.writes = @ + 1]
  ELSE [w EXCEPT !.status = code, !.sink = "Error", !.text = text, !.writes = 1]

\* http.SetCookie(w, cookie).
SetCookie(w, cookie) == [w EXCEPT !.setCookies = Append(@, cookie)]

\* r.Cookie(name): found, and then its value.
HasCookie(r, name) == r.cookies[name].present

CookieValue(r, name) == r.cookies[name].value

\* r.URL.Query().Get(key): "" when the parameter is absent.
QueryGet(r, key) == IF key \in DOMAIN r.query THEN r.query[key] ELSE ""

\* "?" and r.URL.RawQuery as a redirect of net/http appends them to its
\* Location: nothing for a request without query string.
QuerySuffix(r) ==
  IF DOMAIN r.query = {} THEN <<>>
  ELSE LET k == CHOOSE k \in DOMAIN r.query : TRUE IN <<"?", k, "=", r.query[k]>>

\* net/http containsDotDot: some "/"-separated element is exactly "..".
containsDotDot(p) ==
  LET ents == Split(p, "/") IN \E i \in DOMAIN ents : ents[i] = sDotDot

\* path.Base of a URL path that does not end in "/".
Base(p) == LET ents == Split(p, "/") IN ents[Len(ents)]

\* http.ServeFile(w, r, name).  It refuses a request whose URL path has a
\* ".." element, redirects ".../index.html" to "./", answers 404 for a name
\* that does not exist, and for a directory redirects to "name/" or sends
\* its index.html or its listing; its redirects keep the query string.
ServeFile(w, r, name) ==
  IF containsDotDot(r.path)
  THEN Error(w, "invalid URL path", StatusBadRequest)
  ELSE IF HasSuffix(r.path, <<"/">> \o sIndexHtml)
  THEN [w EXCEPT !.status = StatusMovedPermanently, !.sink = "ServeFile", !.writes = @ + 1,
                 !.location = <<".", "/">> \o QuerySuffix(r)]
  ELSE IF ~IsFile(name) /\ ~IsDir(name)
  THEN [w EXCEPT !.status = StatusNotFound, !.sink = "ServeFile", !.writes = @ + 1,
                 !.text = "404 page not found", !.opened = {name}]
  ELSE IF IsDir(name)
  THEN IF r.path[Len(r.path)] # "/"
       THEN [w EXCEPT !.status = StatusMovedPermanently, !.sink = "ServeFile", !.writes = @ + 1,
                      !.location = Base(r.path) \o <<"/">> \o QuerySuffix(r), !.opened = {name}]
       ELSE IF IsFile(Append(name, sIndexHtml))
       THEN [w EXCEPT !.status = StatusOK, !.sink = "ServeFile", !.writes = @ + 1,
                      !.opened = {name, Append(name, sIndexHtml)},
                      !.sent = {Append(name, sIndexHtml)}]
       ELSE [w EXCEPT !.status = StatusOK, !.sink = "ServeFile", !.writes = @ + 1,
                      !.opened = {name, Append(name, sIndexHtml)},
                      !.listing = TRUE]
  ELSE [w EXCEPT !.status = StatusOK, !.sink = "ServeFile", !.writes = @ + 1,
                 !.opened = {name}, !.sent = {name}]

(* ------------------------------ helpers -------------------------------- *)

\* isStaticResource without strings.ToLower.
isStaticResource_CaseSensitive(p) ==
  LET ext == Ext(p) IN
    ext # <<>> /\ ext # <<".", "h", "t", "m", "l">> /\ ext # <<".", "h", "t", "m">>

\* isStaticResource(p)
isStaticResource(p) ==
  LET ext == ToLower(Ext(p)) IN
    ext # <<>> /\ ext # <<".", "h", "t", "m", "l">> /\ ext # <<".", "h", "t", "m">>

\* checkAuth that also consults a server-side record of the logout.
checkAuth_Revocable(r) ==
  HasCookie(r, "quartz_session")
    /\ CookieValue(r, "quartz_session") = <<"is_authenticated">>
    /\ ~hist.sinceLogout

\* checkAuth that only looks for the cookie, not at its value.
checkAuth_AnyValue(r) == HasCookie(r, "quartz_session")

\* checkAuth(r)
checkAuth(r) ==
  HasCookie(r, "quartz_session")
    /\ CookieValue(r, "quartz_session") = <<"is_authenticated">>

\* The URL redirectToLogin builds with Sprintf.
LoginURL ==
  conf.CasdoorAddr \o <<"/login/oauth/authorize?client_id=">> \o conf.ClientID
    \o <<"&response_type=code&redirect_uri=">> \o QueryEscape(conf.RedirectPath)
    \o <<"&scope=read&state=">> \o conf.AppName

\* redirectToLogin(w, r)
redirectToLogin(w, r) == Redirect(w, LoginURL, StatusFound)

\* serveQuartzFile that reads the joined path itself instead of handing it
\* to http.ServeFile.
serveQuartzFile_RawOpen(w, r, relPath) ==
  LET fullPath == Join(conf.QuartzDir, TrimPrefix(relPath, <<"/">>)) IN
    IF IsFile(fullPath)
    THEN [w EXCEPT !.relPath = relPath, !.status = StatusOK, !.sink = "ServeFile", !.writes = @ + 1,
                   !.opened = {fullPath}, !.sent = {fullPath}]
    ELSE [w EXCEPT !.relPath = relPath, !.status = StatusNotFound, !.sink = "ServeFile", !.writes = @ + 1,
                   !.text = "404 page not found", !.opened = {fullPath}]

\* serveQuartzFile(w, r, relPath); fullPath is computed once, as the local
\* of the Go function is.
serveQuartzFile(w, r, relPath) ==
  CHOOSE out \in {ServeFile([w EXCEPT !.relPath = relPath], r, fullPath) :
                    fullPath \in {Join(conf.QuartzDir, TrimPrefix(relPath, <<"/">>))}} : TRUE

\* clearCookie(w, name)
clearCookie(w, name) ==
  SetCookie(w, [Name |-> name, Value |-> <<>>, Path |-> "/",
                HttpOnly |-> FALSE, MaxAge |-> -1])

(* ------------------------------ handlers ------------------------------- *)

\* handleMain that classifies the request URI (path and raw query) instead
\* of r.URL.Path.
handleMain_RequestURI(w, r) ==
  LET urlPath == r.path \o (IF "v" \in DOMAIN r.query
                            THEN <<"?", "v", "=", "1", ".", "h", "t", "m", "l">>
                            ELSE <<>>) IN
    IF isStaticResource(urlPath) THEN serveQuartzFile(w, r, urlPath)
    ELSE IF ~checkAuth(r) THEN redirectToLogin(w, r)
    ELSE LET finalPath ==
               IF urlPath = <<"/">> THEN <<"/">> \o sIndexHtml
               ELSE IF Ext(urlPath) = <<>> THEN urlPath \o <<".", "h", "t", "m", "l">>
               ELSE urlPath
         IN serveQuartzFile(w, r, finalPath)

\* handleMain(w, r)
handleMain(w, r) ==
  LET urlPath == r.path IN
    IF isStaticResource(urlPath) THEN serveQuartzFile(w, r, urlPath)
    ELSE IF ~checkAuth(r) THEN redirectToLogin(w, r)
    ELSE LET finalPath ==
               IF urlPath = <<"/">> THEN <<"/">> \o sIndexHtml
               ELSE IF Ext(urlPath) = <<>> THEN urlPath \o <<".", "h", "t", "m", "l">>
               ELSE urlPath
         IN serveQuartzFile(w, r, finalPath)

(* ------------------------- identity provider --------------------------- *)

nAlice == <<"a", "l", "i", "c", "e">>
nLiE   == <<"L", "i", " ", "é">>
nU1    == <<"u", "1">>
Guest  == <<"G", "u", "e", "s", "t">>

\* The access tokens the provider's JSON body can carry.  "h" and "s" stand
\* for a header and a signature segment, "pX" for a payload segment; the
\* empty token is a body without access_token (or one that is not JSON).
Tokens ==
  { <<>>,
    <<"h">>,
    <<"h", ".", "pName">>,
    <<"h", ".", "pBoth", ".", "s">>,
    <<"h", ".", "pName", ".", "s">>,
    <<"h", ".", "pId", ".", "s">>,
    <<"h", ".", "pNone", ".", "s">>,
    <<"h", ".", "pBad", ".", "s">> }

\* What http.PostForm to the token endpoint can return: a transport error,
\* or a response with a status and a body.
Replies ==
  {[err |-> TRUE, status |-> 0, token |-> <<>>]}
    \cup {[err |-> FALSE, status |-> 200, token |-> t] : t \in Tokens}
    \cup {[err |-> FALSE, status |-> 500, token |-> t] : t \in {<<>>, <<"h", ".", "pBoth", ".", "s">>}}

NoReply == [err |-> FALSE, status |-> 0, token |-> <<>>]

\* base64.RawURLEncoding.DecodeString and json Decode into the claims struct;
\* a payload that does not decode leaves both fields empty.
DecodeClaims(seg) ==
  CASE seg = <<"pBoth">> -> [Name |-> nAlice, ID |-> nU1]
    [] seg = <<"pName">> -> [Name |-> nLiE, ID |-> <<>>]
    [] seg = <<"pId">>   -> [Name |-> <<>>, ID |-> nU1]
    [] OTHER             -> [Name |-> <<>>, ID |-> <<>>]

\* fetchRealUsername that returns no name when the POST itself fails.
fetchRealUsername_NoPlaceholder(code, reply) ==
  IF reply.err THEN <<>>
  ELSE LET parts == Split(reply.token, ".") IN
       IF Len(parts) < 2 THEN Guest
       ELSE LET claims == DecodeClaims(parts[2]) IN
            IF claims.Name # <<>> THEN claims.Name ELSE claims.ID

\* fetchRealUsername(code), given what the provider answers.
fetchRealUsername(code, reply) ==
  IF reply.err THEN Guest
  ELSE LET parts == Split(reply.token, ".") IN
       IF Len(parts) < 2 THEN Guest
       ELSE LET claims == DecodeClaims(parts[2]) IN
            IF claims.Name # <<>> THEN claims.Name ELSE claims.ID

\* handleCallback that writes another value into the session cookie than
\* the one checkAuth compares with.
handleCallback_OtherValue(w, r, reply) ==
  LET code == QueryGet(r, "code") IN
    IF code = "" THEN Error(w, "Code missing", StatusBadRequest)
    ELSE LET realUsername == fetchRealUsername(code, reply)
             w1 == SetCookie(w, [Name |-> "quartz_session",
                                 Value |-> <<"authenticated">>, Path |-> "/",
                                 HttpOnly |-> TRUE, MaxAge |-> 3600 * 24 * 7])
             w2 == SetCookie(w1, [Name |-> "quartz_username",
                                  Value |-> QueryEscape(realUsername), Path |-> "/",
                                  HttpOnly |-> FALSE, MaxAge |-> 3600 * 24 * 7])
         IN Redirect(w2, <<"/">>, StatusFound)

\* handleCallback without the check for an empty code.
handleCallback_NoCodeCheck(w, r, reply) ==
  LET code == QueryGet(r, "code")
      realUsername == fetchRealUsername(code, reply)
      w1 == SetCookie(w, [Name |-> "quartz_session",
                          Value |-> <<"is_authenticated">>, Path |-> "/",
                          HttpOnly |-> TRUE, MaxAge |-> 3600 * 24 * 7])
      w2 == SetCookie(w1, [Name |-> "quartz_username",
                           Value |-> QueryEscape(realUsername), Path |-> "/",
                           HttpOnly |-> FALSE, MaxAge |-> 3600 * 24 * 7])
  IN Redirect(w2, <<"/">>, StatusFound)

\* handleCallback that redirects to the path of the request instead of "/".
handleCallback_RedirectToPath(w, r, reply) ==
  LET code == QueryGet(r, "code") IN
    IF code = "" THEN Error(w, "Code missing", StatusBadRequest)
    ELSE LET realUsername == fetchRealUsername(code, reply)
             w1 == SetCookie(w, [Name |-> "quartz_session",
                                 Value |-> <<"is_authenticated">>, Path |-> "/",
                                 HttpOnly |-> TRUE, MaxAge |-> 3600 * 24 * 7])
             w2 == SetCookie(w1, [Name |-> "quartz_username",
                                  Value |-> QueryEscape(realUsername), Path |-> "/",
                                  HttpOnly |-> FALSE, MaxAge |-> 3600 * 24 * 7])
         IN Redirect(w2, r.path, StatusFound)

\* handleCallback without the return after http.Error.
handleCallback_NoReturn(w, r, reply) ==
  LET code == QueryGet(r, "code")
      w0 == IF code = "" THEN Error(w, "Code missing", StatusBadRequest) ELSE w
      realUsername == fetchRealUsername(code, reply)
      w1 == SetCookie(w0, [Name |-> "quartz_session",
                           Value |-> <<"is_authenticated">>, Path |-> "/",
                           HttpOnly |-> TRUE, MaxAge |-> 3600 * 24 * 7])
      w2 == SetCookie(w1, [Name |-> "quartz_username",
                           Value |-> QueryEscape(realUsername), Path |-> "/",
                           HttpOnly |-> FALSE, MaxAge |-> 3600 * 24 * 7])
  IN Redirect(w2, <<"/">>, StatusFound)

\* handleCallback(w, r)
handleCallback(w, r, reply) ==
  LET code == QueryGet(r, "code") IN
    IF code = "" THEN Error(w, "Code missing", StatusBadRequest)
    ELSE LET realUsername == fetchRealUsername(code, reply)
             w1 == SetCookie(w, [Name |-> "quartz_session",
                                 Value |-> <<"is_authenticated">>, Path |-> "/",
                                 HttpOnly |-> TRUE, MaxAge |-> 3600 * 24 * 7])
             w2 == SetCookie(w1, [Name |-> "quartz_username",
                                  Value |-> QueryEscape(realUsername), Path |-> "/",
                                  HttpOnly |-> FALSE, MaxAge |-> 3600 * 24 * 7])
         IN Redirect(w2, <<"/">>, StatusFound)

\* The URL handleLogout builds with Sprintf.
LogoutURL ==
  conf.CasdoorAddr \o <<"/api/logout?redirect_uri=">> \o QueryEscape(conf.BaseURL)

\* handleLogout that sends a client without a session to the login page.
handleLogout_OnlyWithSession(w, r) ==
  IF ~checkAuth(r) THEN redirectToLogin(w, r)
  ELSE LET w1 == clearCookie(w, "quartz_session")
           w2 == clearCookie(w1, "quartz_username")
       IN Redirect(w2, LogoutURL, StatusFound)

\* handleLogout(w, r)
handleLogout(w, r) ==
  LET w1 == clearCookie(w, "quartz_session")
      w2 == clearCookie(w1, "quartz_username")
  IN Redirect(w2, LogoutURL, StatusFound)

(* ------------------------------ routing -------------------------------- *)

pCallback == <<"/", "c", "a", "l", "l", "b", "a", "c", "k">>
pLogout   == <<"/", "l", "o", "g", "o", "u", "t">>

\* net/http cleanPath: path.Clean, with the trailing slash put back.
cleanPath(p) ==
  LET segs == CleanSegs(<<>>, Split(p, "/"))
      np   == IF segs = <<>> THEN <<"/">> ELSE PathOf(segs)
  IN IF p[Len(p)] = "/" /\ np # <<"/">> THEN np \o <<"/">> ELSE np

\* The methods of the model.
Methods == <<"GET", "CONNECT">>

\* The default ServeMux with the patterns main registers: a request that is
\* not a CONNECT and whose path is not clean is redirected to the clean path;
\* "/callback" and "/logout" match that path only, "/" every other path.
Mux(method, p) ==
  IF method # "CONNECT" /\ cleanPath(p) # p THEN "redirect"
  ELSE IF p = pCallback THEN "handleCallback"
  ELSE IF p = pLogout THEN "handleLogout"
  ELSE "handleMain"

\* The handler the mux answers an unclean path with: the redirect to the
\* clean path, with the query string of the request.
muxRedirect(w, r) ==
  Redirect(w, cleanPath(r.path) \o QuerySuffix(r), StatusMovedPermanently)

AllPaths == ReqPaths \cup {pCallback, pLogout}

\* The paths tried with each method: every path with GET, and with CONNECT
\* the paths the mux would otherwise redirect.
PathsOf == <<AllPaths, {p \in ReqPaths : cleanPath(p) # p}>>

\* The (method, path) pairs the mux hands to each handler.
Routes ==
  [h \in {"redirect", "handleMain", "handleCallback", "handleLogout"} |->
     {mp \in UNION {{<<Methods[i], p>> : p \in PathsOf[i]} : i \in DOMAIN Methods} :
        Mux(mp[1], mp[2]) = h}]

\* The query strings of the model: none, "code=" and "code=c1".
Queries == {[k \in {} |-> ""], [k \in {"code"} |-> ""], [k \in {"code"} |-> "c1"]}

NoQuery == [k \in {} |-> ""]

\* The query strings of the requests for pages and assets: none, and
\* ?v=1.html, whose value looks like a file name.
MainQueries == {NoQuery, [k \in {"v"} |-> "1.html"]}

(* ------------------------------ browser -------------------------------- *)

NoCookie == [present |-> FALSE, value |-> <<>>]

RECURSIVE ApplySetCookies(_, _)
\* The browser stores each Set-Cookie in order; a negative MaxAge (sent as
\* Max-Age: 0) deletes the cookie of that name.
ApplySetCookies(j, cookies) ==
  IF cookies = <<>> THEN j
  ELSE LET c == Head(cookies) IN
       ApplySetCookies(
         [j EXCEPT ![c.Name] = IF c.MaxAge < 0 THEN NoCookie
                               ELSE [present |-> TRUE, value |-> c.Value]],
         Tail(cookies))

(* --------------------------- the state machine ------------------------- *)

\* A callback whose exchange the specification calls successful: a 2xx
\* answer that carries a credential of at least two segments.
ExchangeOK(reply) ==
  ~reply.err /\ reply.status \in 200..299 /\ Len(Split(reply.token, ".")) >= 2

\* What kind of request r was, for the history.
KindOf(r) ==
  IF r.handler = "handleMain" THEN "main"
  ELSE IF r.handler = "redirect" THEN "mux_redirect"
  ELSE IF r.handler = "handleLogout" THEN "logout"
  ELSE IF QueryGet(r, "code") = "" THEN "callback_nocode"
  ELSE IF ExchangeOK(r.reply) THEN "callback_ok"
  ELSE "callback_failed"

\* confAfter of a handler that keeps the path of the request in conf.
confAfter_KeepsPath(r) == [conf EXCEPT !.RedirectPath = r.path]

\* What a handler leaves in the package variable conf after request r: no
\* handler assigns to it, loadConfig is its only writer.
confAfter(r) == conf

NoReq ==
  [handler |-> "none", method |-> "", path |-> <<>>, query |-> NoQuery, cookies |-> [n \in CookieNames |-> NoCookie],
   reply |-> NoReply]

Init ==
  /\ conf = LoadedConfig
  /\ \E v \in {NoCookie, [present |-> TRUE, value |-> <<"stale">>]} :
       jar = [n \in CookieNames |-> IF n = "quartz_session" THEN v ELSE NoCookie]
  /\ req = NoReq
  /\ resp = NoResp
  /\ hist = [prevKind |-> "none", sinceLogout |-> FALSE,
             logoutResp |-> NoResp, logoutJar |-> [n \in CookieNames |-> NoCookie]]
  /\ inflight = [i \in 1..NumSlots |-> [stage |-> "idle", r |-> NoReq, w |-> NoResp]]

\* The bookkeeping every request does: the browser applies the cookies of
\* the response, and the history moves on.
Done(r, w) ==
  /\ req' = r
  /\ resp' = w
  /\ jar' = ApplySetCookies(jar, w.setCookies)
  /\ hist' = [prevKind    |-> IF req.handler = "none" THEN "none" ELSE KindOf(req),
              sinceLogout |-> IF KindOf(r) = "logout" THEN TRUE
                              ELSE IF KindOf(r) = "callback_ok" THEN FALSE
                              ELSE hist.sinceLogout,
              logoutResp  |-> IF req.handler = "handleLogout" THEN resp ELSE NoResp,
              logoutJar   |-> IF req.handler = "handleLogout" THEN jar
                              ELSE [n \in CookieNames |-> NoCookie]]
  /\ conf' = confAfter(r)
  /\ UNCHANGED inflight

Request(handler, m, p, q, reply) ==
  [handler |-> handler, method |-> m, path |-> p, query |-> q, cookies |-> jar,
   reply |-> reply]

\* A request with an unclean path, answered by the mux itself.
CleanRedirect ==
  \E mp \in Routes["redirect"], q \in MainQueries :
    LET r == Request("redirect", mp[1], mp[2], q, NoReply)
    IN Done(r, muxRedirect(NoResp, r))

\* A request routed to handleMain, with a query string of qs.
MainWith(qs) ==
  \E mp \in Routes["handleMain"], q \in qs :
    LET r == Request("handleMain", mp[1], mp[2], q, NoReply)
    IN Done(r, handleMain(NoResp, r))

Main == MainWith(MainQueries)

\* /callback?<q>; the provider answers `reply` when it is asked.
Callback ==
  \E mp \in Routes["handleCallback"], q \in Queries, reply \in Replies :
    LET asked == QueryGet([query |-> q], "code") # ""
        r == Request("handleCallback", mp[1], mp[2], q,
                     IF asked THEN reply ELSE NoReply)
    IN Done(r, handleCallback(NoResp, r, r.reply))

\* /logout.
Logout ==
  \E mp \in Routes["handleLogout"] :
    LET r == Request("handleLogout", mp[1], mp[2], NoQuery, NoReply)
    IN Done(r, handleLogout(NoResp, r))

Next == Main \/ CleanRedirect \/ Callback \/ Logout

Spec == Init /\ [][Next]_vars

\* A client that writes its own cookie: r.Cookie reads whatever the request
\* carries, so the quartz_session cookie can be absent, stale or the
\* sentinel without any response having set it.
Forge ==
  /\ \E v \in {NoCookie, [present |-> TRUE, value |-> <<"stale">>],
                [present |-> TRUE, value |-> <<"is_authenticated">>]} :
       jar' = [jar EXCEPT !["quartz_session"] = v]
  /\ jar' # jar
  /\ UNCHANGED <<conf, req, resp, hist, inflight>>

\* The requests of that client for pages and assets, without query string.
ForgedMain == MainWith({NoQuery})

NextForge == ForgedMain \/ Callback \/ Logout \/ Forge

\* The server facing a client that may forge its cookies.
SpecForge == Init /\ [][NextForge]_vars

(* ------------------------ concurrent handling -------------------------- *)

\* net/http runs every request in a goroutine of its own.  A slot holds one
\* of them: the request r as it arrived, "handler" while its handler runs,
\* "replied" once the provider answered its PostForm, "done" with the
\* response w.
Slots == 1..NumSlots

\* The requests that arrive while others are handled: a page, a callback
\* with and without a code, a logout.
ConcRequests ==
  { <<"handleMain", <<"/">> \o sNotes \o <<"/">> \o sArticle, NoQuery>>,
    <<"handleCallback", pCallback, [k \in {"code"} |-> "c1"]>>,
    <<"handleCallback", pCallback, NoQuery>>,
    <<"handleLogout", pLogout, NoQuery>> }

\* What the provider answers them: a transport error, or a token.
ConcReplies ==
  { [err |-> TRUE, status |-> 0, token |-> <<>>],
    [err |-> FALSE, status |-> 200, token |-> <<"h", ".", "pBoth", ".", "s">>] }

\* The handler the mux picked, run on r alone.
Dispatch(r) ==
  CASE r.handler = "handleMain"     -> handleMain(NoResp, r)
    [] r.handler = "handleCallback" -> handleCallback(NoResp, r, r.reply)
    [] r.handler = "handleLogout"   -> handleLogout(NoResp, r)
    [] OTHER                        -> muxRedirect(NoResp, r)

\* The handler of r has to wait for the provider.
AwaitsProvider(r) == r.handler = "handleCallback" /\ QueryGet(r, "code") # ""

\* A request of qs arrives with the cookies the browser holds at that
\* moment.
ArriveOf(i, qs) ==
  /\ inflight[i].stage \in {"idle", "done"}
  /\ \E q \in qs :
       inflight' = [inflight EXCEPT ![i] =
                      [stage |-> "handler", w |-> NoResp,
                       r |-> Request(q[1], "GET", q[2], q[3], NoReply)]]
  /\ UNCHANGED <<conf, jar, req, resp, hist>>

Arrive(i) == ArriveOf(i, ConcRequests)

\* The provider answers the PostForm of fetchRealUsername with one of
\* replies.
ExchangeOf(i, replies) ==
  /\ inflight[i].stage = "handler"
  /\ AwaitsProvider(inflight[i].r)
  /\ \E reply \in replies :
       inflight' = [inflight EXCEPT ![i].stage = "replied", ![i].r.reply = reply]
  /\ UNCHANGED <<conf, jar, req, resp, hist>>

Exchange(i) == ExchangeOf(i, ConcReplies)

\* The handler writes its response and returns; the browser applies the
\* cookies of the response.
Respond(i) ==
  /\ \/ inflight[i].stage = "replied"
     \/ inflight[i].stage = "handler" /\ ~AwaitsProvider(inflight[i].r)
  /\ \E w \in {Dispatch(inflight[i].r)} :
       /\ inflight' = [inflight EXCEPT ![i].stage = "done", ![i].w = w]
       /\ jar' = ApplySetCookies(jar, w.setCookies)
  /\ conf' = confAfter(inflight[i].r)
  /\ UNCHANGED <<req, resp, hist>>

NextConc == \E i \in Slots : Arrive(i) \/ Exchange(i) \/ Respond(i)

\* The server handling up to NumSlots requests at a time.
SpecConc == Init /\ [][NextConc]_vars

\* The requests of a single goroutine followed from arrival to response:
\* those above, and pages and assets that exist, do not exist, are a
\* directory or are refused.
LiveRequests ==
  ConcRequests
    \cup {<<"handleMain", p, NoQuery>> :
            p \in {<<"/">>, PathOf(<<sArticlePng>>), PathOf(<<sNotes>>),
                   PathOf(<<sNotes, <<>>>>), PathOf(<<sNotes, sIndexHtml>>),
                   PathOf(<<sDotDot, sArticlePng>>)}}

LiveArrive == ArriveOf(1, LiveRequests)

LiveExchange == ExchangeOf(1, Replies)

NextLive == LiveArrive \/ LiveExchange \/ Respond(1)

\* That goroutine when a handler that can run does run, and the provider
\* answers every token request: a handler has no loop and waits for nothing
\* but the PostForm, which has no timeout.
SpecLive ==
  Init /\ [][NextLive]_vars /\ WF_vars(Respond(1)) /\ WF_vars(LiveExchange)

(* ------------------------ vocabulary of the claims --------------------- *)

\* The client presents a valid session marker.
ValidSession(cookies) ==
  cookies["quartz_session"] = [present |-> TRUE, value |-> <<"is_authenticated">>]

\* The paths the specification lets through without a session.
AlwaysAllowedPaths == {PathOf(<<sFavicon>>)}

\* Classification of section 4.1: the last segment has an extension other
\* than .html/.htm, compared without case.
IsStaticAssetPath(p) ==
  /\ p \notin AlwaysAllowedPaths
  /\ p \notin {pCallback, pLogout}
  /\ ToLower(Ext(p)) \notin {<<>>, <<".", "h", "t", "m", "l">>, <<".", "h", "t", "m">>}

IsProtectedPagePath(p) ==
  /\ p \notin AlwaysAllowedPaths
  /\ p \notin {pCallback, pLogout}
  /\ ToLower(Ext(p)) \in {<<>>, <<".", "h", "t", "m", "l">>, <<".", "h", "t", "m">>}

\* The authorization endpoint of section 6.
AuthorizeURL ==
  conf.CasdoorAddr \o <<"/login/oauth/authorize?client_id=">> \o conf.ClientID
    \o <<"&response_type=code&redirect_uri=">> \o QueryEscape(conf.RedirectPath)
    \o <<"&scope=read&state=">> \o conf.AppName

\* The response sets a session cookie that checkAuth would accept.
IssuesSession(w) ==
  \E i \in DOMAIN w.setCookies :
    /\ w.setCookies[i].Name = "quartz_session"
    /\ w.setCookies[i].MaxAge >= 0
    /\ w.setCookies[i].Value = <<"is_authenticated">>

\* The response sets the display-identity cookie.
IssuesIdentity(w) ==
  \E i \in DOMAIN w.setCookies :
    w.setCookies[i].Name = "quartz_username" /\ w.setCookies[i].MaxAge >= 0

\* The response carries a file, a listing or a redirect.
CarriesContent(w) == w.sent # {} \/ w.listing

(* -------------------------------- claims ------------------------------- *)

\* C1: a request to the main handler for a static asset that is not on the
\* always-allowed list and carries no valid session marker is answered 401,
\* with no redirect and without the file's contents.
C1_StaticAssetUnauthorized ==
  (req.handler = "handleMain" /\ IsStaticAssetPath(req.path) /\ ~ValidSession(req.cookies))
    => (resp.status = StatusUnauthorized /\ resp.location = <<>> /\ ~CarriesContent(resp))

\* C2: a request for a protected page (root, no extension, .html/.htm) without
\* a valid session marker is answered with a 3xx redirect to the provider's
\* authorization endpoint; it is never a 401 and never a file.
C2_ProtectedPageRedirects ==
  (req.handler = "handleMain" /\ IsProtectedPagePath(req.path) /\ ~ValidSession(req.cookies))
    => /\ resp.status \in 300..399
       /\ resp.location = AuthorizeURL
       /\ resp.status # StatusUnauthorized
       /\ ~CarriesContent(resp)
       /\ resp.opened = {}

C2_Witness ==
  /\ req.handler = "handleMain"
  /\ req.path = <<"/">> \o sNotes \o <<"/">> \o sArticle
  /\ req.cookies["quartz_session"] = [present |-> TRUE, value |-> <<"stale">>]
  /\ resp.status = StatusFound

C4_MissingCodeRejected ==
  (req.handler = "handleCallback" /\ QueryGet(req, "code") = "")
    => /\ resp.status \in 400..499
       /\ ~IssuesSession(resp)
       /\ ~IssuesIdentity(resp)
       /\ resp.setCookies = <<>>

C4_Witness ==
  /\ req.handler = "handleCallback"
  /\ req.query = NoQuery
  /\ resp.status = StatusBadRequest
  /\ ~ValidSession(jar)

\* C5: when the token exchange fails (transport error or a non-2xx answer)
\* the callback issues no valid session marker.
C5_FailedExchangeNoSession ==
  (req.handler = "handleCallback" /\ QueryGet(req, "code") # ""
     /\ (req.reply.err \/ req.reply.status \notin 200..299))
    => ~IssuesSession(resp)

\* C6: once /logout was requested, and until a callback succeeds again, the
\* client holds neither marker and each of its protected-page requests is
\* redirected to the authorization endpoint.
C6_LoggedOutUntilCallback ==
  hist.sinceLogout
    => /\ ~ValidSession(jar)
       /\ ~jar["quartz_username"].present
       /\ (req.handler = "handleMain" /\ IsProtectedPagePath(req.path))
            => resp.location = AuthorizeURL

\* C7: /logout is answered with the same 3xx redirect to the provider's
\* logout endpoint, with redirect_uri the gateway's base URL, whether or not
\* a session marker is presented; a second /logout right after the first
\* gives the same response and leaves the same cookies.
C7_LogoutIdempotent ==
  req.handler = "handleLogout"
    => /\ resp.status \in 300..399
       /\ resp.location = conf.CasdoorAddr \o <<"/api/logout?redirect_uri=">>
                            \o QueryEscape(conf.BaseURL)
       /\ \A n \in CookieNames : ~jar[n].present
       /\ hist.prevKind = "logout" => (resp = hist.logoutResp /\ jar = hist.logoutJar)

C7_Witness ==
  /\ req.handler = "handleLogout"
  /\ hist.prevKind = "logout"
  /\ hist.logoutResp.status = StatusFound
  /\ resp = hist.logoutResp

\* The resolved path the specification gives for a request path.
ExpectedResolve(p) ==
  IF p = <<"/">> THEN <<"/">> \o sIndexHtml
  ELSE IF p[Len(p)] = "/" THEN p \o sIndexHtml
  ELSE IF Ext(p) = <<>> THEN p \o <<".", "h", "t", "m", "l">>
  ELSE p

\* C8: for an authenticated request, "/" resolves to index.html, a path ending
\* in "/" to that directory's index.html, a path without extension gets
\* ".html" appended, and a path with an extension is used unchanged.
C8_PathResolution ==
  (req.handler = "handleMain" /\ ValidSession(req.cookies))
    => resp.relPath = ExpectedResolve(req.path)

\* C9: every file the gateway opens or sends lies at or below the configured
\* site root, also for request paths with ".." segments; such a request is
\* rejected.
C9_NoTraversal ==
  \A f \in resp.opened \cup resp.sent : HasPrefix(f, conf.QuartzDir)

C9_Witness ==
  /\ req.handler = "handleMain"
  /\ containsDotDot(req.path)
  /\ resp.relPath # <<>>
  /\ LET joined == Join(conf.QuartzDir, TrimPrefix(resp.relPath, <<"/">>)) IN
       IsFile(joined) /\ ~HasPrefix(joined, conf.QuartzDir)
  /\ resp.status = StatusBadRequest
  /\ resp.opened = {}

\* C10: the identity the callback issues for a credential: the name claim of
\* a well-formed three-segment credential when it is not empty, else its id
\* claim, else the placeholder; a credential of fewer than two segments is
\* the exchange's failure, which the code signals by the placeholder.
C10_CredentialParsing ==
  (req.handler = "handleCallback" /\ QueryGet(req, "code") # "" /\ ~req.reply.err)
    => LET parts == Split(req.reply.token, ".")
           issued == resp.setCookies[2].Value
       IN /\ Len(parts) < 2 => issued = QueryEscape(Guest)
          /\ (Len(parts) = 3 /\ parts[2] \in {<<"pBoth">>, <<"pName">>, <<"pId">>, <<"pNone">>})
               => LET c == DecodeClaims(parts[2]) IN
                    issued = QueryEscape(IF c.Name # <<>> THEN c.Name
                                         ELSE IF c.ID # <<>> THEN c.ID
                                         ELSE Guest)

\* The file is an HTML page: its name ends in .html or .htm.
IsHtmlFile(f) ==
  ToLower(Ext(f[Len(f)])) \in {<<".", "h", "t", "m", "l">>, <<".", "h", "t", "m">>}

\* C11: a response that serves an .html/.htm file carries Cache-Control
\* directives that forbid caching (no-store), and a response that serves any
\* other file carries a long-lived one (a max-age of a year).
C11_HeaderContract ==
  \A f \in resp.sent :
    IF IsHtmlFile(f)
    THEN resp.cacheControl = "no-store, no-cache, must-revalidate, proxy-revalidate"
    ELSE resp.cacheControl = "public, max-age=31536000"

\* C12: the classification depends on the URL path alone.  A path whose
\* extension is other than .html/.htm, compared without case, is handled as
\* a static asset (the resolver gets the path as it is), and the same
\* request with any other query string is classified and completed the
\* same way: the same path goes to the resolver, the same files are opened
\* and sent, with the same status.
C12_PathOnlyClassification ==
  req.handler = "handleMain" =>
    /\ ToLower(Ext(req.path)) \notin {<<>>, <<".", "h", "t", "m", "l">>, <<".", "h", "t", "m">>}
         => resp.relPath = req.path
    /\ \A q \in MainQueries :
         LET w == handleMain(NoResp, [req EXCEPT !.query = q]) IN
           /\ w.relPath = resp.relPath
           /\ w.status = resp.status
           /\ w.opened = resp.opened /\ w.sent = resp.sent

\* /notes/article?v=1.html with a session: the page is completed to
\* /notes/article.html and served, as without the query string.
C12_Witness ==
  /\ req.handler = "handleMain"
  /\ req.query # NoQuery
  /\ req.path = <<"/">> \o sNotes \o <<"/">> \o sArticle
  /\ resp.relPath = req.path \o <<".", "h", "t", "m", "l">>
  /\ resp.status = StatusOK

\* C13: a path of the always-allowed list is handed to the resolver whether
\* or not a session is presented, and no other path gets past the session
\* check: without a valid session nothing else is resolved or opened.
C13_OnlyAllowListExempt ==
  req.handler = "handleMain" =>
    /\ req.path \in AlwaysAllowedPaths
         => resp.sink = "ServeFile" /\ resp.relPath = req.path
    /\ (req.path \notin AlwaysAllowedPaths /\ ~ValidSession(req.cookies))
         => resp.relPath = <<>> /\ resp.opened = {}

\* The file serveQuartzFile resolves the response's path to.
ResolvedFile(w) == Join(conf.QuartzDir, TrimPrefix(w.relPath, <<"/">>))

\* C14: when the resolved file does not exist and the site root has a
\* not-found page, the response is that page: never another content, never
\* a redirect.
C14_NotFoundPage ==
  (/\ req.handler = "handleMain"
   /\ resp.relPath # <<>>
   /\ ~IsFile(ResolvedFile(resp)) /\ ~IsDir(ResolvedFile(resp)))
    => /\ resp.sent = {<<sSrv, sSite, s404Html>>}
       /\ resp.location = <<>>

\* C15: a transport error during the code exchange does not fail the
\* callback: the response is the redirect to "/", and the display identity
\* it sets, and the browser then holds, is the placeholder "Guest".
C15_TransportErrorPlaceholder ==
  (req.handler = "handleCallback" /\ QueryGet(req, "code") # "" /\ req.reply.err)
    => /\ resp.status = StatusFound /\ resp.location = <<"/">>
       /\ \E i \in DOMAIN resp.setCookies :
            /\ resp.setCookies[i].Name = "quartz_username"
            /\ resp.setCookies[i].Value = Guest
            /\ resp.setCookies[i].MaxAge > 0
       /\ jar["quartz_username"] = [present |-> TRUE, value |-> Guest]

\* /callback?code=c1 while the provider cannot be reached.
C15_Witness ==
  /\ req.handler = "handleCallback"
  /\ QueryGet(req, "code") = "c1"
  /\ req.reply.err
  /\ resp.status = StatusFound
  /\ jar["quartz_username"].value = Guest

\* C16: only a callback whose code exchange succeeded creates a session
\* marker: a response issues one, or a browser that held no valid marker
\* holds one after the step, only when the request of that step was such a
\* callback; never the main handler, the logout handler or a failed callback.
C16_OnlySuccessfulCallbackIssues ==
  [][ (IssuesSession(resp') \/ (~ValidSession(jar) /\ ValidSession(jar')))
        => KindOf(req') = "callback_ok" ]_vars

\* C17: whether a request is authenticated is a function of the marker it
\* presents and of nothing else: a request for a protected page reaches the
\* resolver exactly when it carries the sentinel value, and is sent to the
\* login exactly when it does not, whatever happened before (no callback at
\* all, a logout of another copy of the marker).
C17_StatelessValidity ==
  (req.handler = "handleMain" /\ IsProtectedPagePath(req.path))
    => /\ resp.relPath # <<>> <=> ValidSession(req.cookies)
       /\ resp.location = LoginURL <=> ~ValidSession(req.cookies)

\* The first request of a client, for "/", with a marker no callback issued.
C17_Witness ==
  /\ hist.prevKind = "none"
  /\ req.handler = "handleMain"
  /\ req.path = <<"/">>
  /\ ValidSession(req.cookies)
  /\ resp.status = StatusOK
  /\ resp.sent = {<<sSrv, sSite, sIndexHtml>>}

Terminal(w) == w.writes = 1 /\ w.status \in 200..599 /\ w.sink # "none"

\* C19: every request reaches exactly one terminal outcome and writes
\* exactly one response: a request whose handler runs is eventually done,
\* the callback provided the provider answers its token request, and the
\* response of a request that is done was written once, with a 2xx, 3xx,
\* 4xx or 5xx status.
C19_EveryRequestAnswered ==
  /\ [](inflight[1].stage = "done" => Terminal(inflight[1].w))
  /\ (inflight[1].stage \in {"handler", "replied"}) ~> (inflight[1].stage = "done")

\* A callback that waited for the provider, answered with the redirect once
\* the provider replied.
C19_Witness ==
  /\ inflight[1].stage = "done"
  /\ AwaitsProvider(inflight[1].r)
  /\ ~inflight[1].r.reply.err
  /\ inflight[1].w.status = StatusFound
  /\ inflight[1].w.writes = 1

IsRedirect(w) == w.status \in 300..399

\* The redirect targets built from constants and the startup configuration
\* alone: "/", the authorization endpoint, the provider's logout endpoint.
ConfiguredTargets == {<<"/">>, AuthorizeURL, LogoutURL}

PathPart(loc) == Split(loc, "?")[1]

\* A reference relative to the request's own path: one path element, or ".",
\* followed by "/".
IsRelativeDir(loc) ==
  LET ents == Split(PathPart(loc), "/") IN
    Len(ents) = 2 /\ ents[1] # <<>> /\ ents[1] # sDotDot /\ ents[2] = <<>>

\* A rooted path on the gateway in the mux's clean form: no empty, "." or
\* ".." element.
IsCleanRooted(loc) ==
  LET p == PathPart(loc) IN p # <<>> /\ p[1] = "/" /\ cleanPath(p) = p

====
